---------------------------- MODULE Spec2Model ----------------------------
(***************************************************************************)
(* Sentinel-2 image search of ceda_sentinel: the command line entry point  *)
(* (src/src/main.py: main, get_images) and the search class               *)
(* (src/src/ceda_s2/find.py: FindS2).                                      *)
(*                                                                         *)
(* Two specifications:                                                     *)
(*   Spec      one run of main(): argument checks, get_images, the search  *)
(*             of FindS2.find_image_links and the merge/save of get_images *)
(*   SpecGate  the per-feature gates of FindS2 applied to one pixel window *)
(***************************************************************************)
EXTENDS Integers, Sequences, FiniteSets, TLC

VARIABLES
    pc,               \* position of the run
    args,             \* parsed command line arguments (main)
    file,             \* the features file read by gpd.read_file
    error,            \* the exception that ended the run, "none" otherwise
    events,           \* network / raster accesses made so far, in order
    aoi,              \* FindS2.aoi: the rows handed to the finder
    existing_search,  \* get_images: rows kept from the earlier search
    tile_list,        \* FindS2.tile_list / tile_gdf
    listing,          \* the archive: href sets of the date folders read
    img_links,        \* the list all_img_list returned
    raster,           \* the archive: pixel summary of every raster read
    validated,        \* (feature id, link) pairs given to _validate_feature_image
    result_list,      \* the list _find_images_per_feature returned
    image_features,   \* get_images: image_features
    saved,            \* the layer written by to_file
    gate_in,          \* SpecGate: pixel window and thresholds
    gate_out,         \* SpecGate: what the gates returned
    xml,              \* the archive: answer to every metadata request made
    xml_reads,        \* the metadata files requested, in the order of the requests
    save_path,        \* the path the layer was written to
    tasks,            \* S1Downloader: the feature ids still to be processed
    npz,              \* S1Downloader: the npz file of each feature id
    written,          \* S1Downloader: the feature ids whose file was written
    failed,           \* S1Downloader: the feature ids whose task raised
    band_descriptions \* ImageDownloader.band_descriptions

vars == << pc, args, file, error, events, aoi, existing_search, tile_list,
           listing, img_links, raster, validated, result_list, image_features,
           saved, gate_in, gate_out, xml, xml_reads, save_path, tasks,
           npz, written, failed, band_descriptions >>

\* the state of S1Downloader.download_images and of
\* ImageDownloader.download_from_gdf
download == << tasks, npz, written, failed, band_descriptions >>

-----------------------------------------------------------------------------
(* Bounds of the model *)

\* features of the input layer are numbered 1..NumFeatures
NumFeatures == 2
\* largest pixel window (rows * columns) of SpecGate
MaxWindow == 50

-----------------------------------------------------------------------------
(***************************************************************************)
(* IEEE-754 double arithmetic, as far as the gates use it:                 *)
(* count / window_size * 100, compared with a threshold and truncated by   *)
(* int().  A double x > 0 is [hi, d, e]: the 53-bit mantissa               *)
(* hi*2^52 + d[1]*2^39 + d[2]*2^26 + d[3]*2^13 + d[4] (hi = 1, four 13-bit *)
(* limbs) and the value mantissa * 2^(-e).                                 *)
(***************************************************************************)
Limb == 8192

RECURSIVE Pow2(_)
Pow2(k) == IF k <= 0 THEN 1 ELSE 2 * Pow2(k - 1)

FloatZero == [hi |-> 0, d |-> <<0, 0, 0, 0>>, e |-> 0]

\* mantissa + 1, renormalised when it reaches 2^53
FloatInc(x) ==
    LET c4 == x.d[4] + 1
        c3 == x.d[3] + c4 \div Limb
        c2 == x.d[2] + c3 \div Limb
        c1 == x.d[1] + c2 \div Limb
        h  == x.hi + c1 \div Limb
    IN IF h = 2
       THEN [hi |-> 1, d |-> <<0, 0, 0, 0>>, e |-> x.e - 1]
       ELSE [hi |-> h,
             d  |-> <<c1 % Limb, c2 % Limb, c3 % Limb, c4 % Limb>>,
             e  |-> x.e]

\* round to nearest, ties to even
FloatRound(x, guard, sticky) ==
    IF guard /\ (sticky \/ x.d[4] % 2 = 1) THEN FloatInc(x) ELSE x

RECURSIVE NormShift(_, _)
NormShift(n, w) == IF n >= w THEN 0 ELSE 1 + NormShift(2 * n, w)

\* n / w for integers 0 <= n <= w, 0 < w: the true division of two exactly
\* representable operands, correctly rounded
FloatDiv(n, w) ==
    IF n = 0 THEN FloatZero
    ELSE LET z  == NormShift(n, w)
             r0 == n * Pow2(z) - w
             d1 == (r0 * Limb) \div w
             r1 == (r0 * Limb) % w
             d2 == (r1 * Limb) \div w
             r2 == (r1 * Limb) % w
             d3 == (r2 * Limb) \div w
             r3 == (r2 * Limb) % w
             d4 == (r3 * Limb) \div w
             r4 == (r3 * Limb) % w
         IN FloatRound([hi |-> 1, d |-> <<d1, d2, d3, d4>>, e |-> z + 52],
                       2 * r4 >= w, (2 * r4) % w # 0)

\* x * k for an integer 64 <= k < 128: the product of the mantissa has 59
\* or 60 bits, of which 6 or 7 are rounded away
FloatMulInt(x, k) ==
    IF x = FloatZero THEN FloatZero
    ELSE LET p4 == x.d[4] * k
             p3 == x.d[3] * k + p4 \div Limb
             p2 == x.d[2] * k + p3 \div Limb
             p1 == x.d[1] * k + p2 \div Limb
             ph == x.hi * k + p1 \div Limb
             l4 == p4 % Limb
             l3 == p3 % Limb
             l2 == p2 % Limb
             l1 == p1 % Limb
             s  == IF ph >= 128 THEN 7 ELSE 6
             lo == Pow2(s)
             up == Limb \div lo
         IN FloatRound([hi |-> ph \div lo,
                        d  |-> << l1 \div lo + (ph % lo) * up,
                                  l2 \div lo + (l1 % lo) * up,
                                  l3 \div lo + (l2 % lo) * up,
                                  l4 \div lo + (l3 % lo) * up >>,
                        e  |-> x.e - s],
                       (l4 % lo) \div (lo \div 2) = 1,
                       l4 % (lo \div 2) # 0)

\* int(x): truncation of a double 0 <= x < 2^14
FloatTrunc(x) ==
    IF x = FloatZero \/ x.e > 52 THEN 0
    ELSE (x.hi * Limb + x.d[1]) \div Pow2(x.e - 39)

\* x < t for a double x >= 0 and an integer-valued threshold t
FloatLtInt(x, t) == FloatTrunc(x) < t

\* count / window_size * 100
Percent(count, window_size) == FloatMulInt(FloatDiv(count, window_size), 100)

\* the exact percentage count * 100 / window_size is below, or equal to, t
ExactBelow(count, window_size, t) == count * 100 < t * window_size
ExactEqual(count, window_size, t) == count * 100 = t * window_size


-----------------------------------------------------------------------------
(***************************************************************************)
(* Data.  A link is the text of an href of a listing page, held by its     *)
(* parts: ".../<sat>_<date>_<tile>_..._<suffix><query>".  A table is a     *)
(* pandas frame: its column names and its rows in order; a row carries its *)
(* index label ix, its geometry (the number of the feature) and a null in  *)
(* every column the table does not have.                                   *)
(***************************************************************************)
Nan    == 0 - 1                      \* a null number (NaN / None)
NoDate == <<>>                       \* a null image_date
NoLink == [sat |-> "", date |-> 0, tile |-> "", suffix |-> "", query |-> ""]

Features == 1 .. NumFeatures

\* names of the tiles of the reference layer that intersect feature g
FeatureTiles(g) == IF g = 1 THEN {"T30UVG", "T30UVF"} ELSE {"T30UVF"}

Href(sat, date, tile, suffix) ==
    [sat |-> sat, date |-> date, tile |-> tile, suffix |-> suffix,
     query |-> "?download=1"]

\* the anchors a listing page of date folder d (1 = start date) may hold
\* besides its metadata file; the first scene is also linked from folder 2
HrefMeta(d) == Href("S2A", 20230100 + d, "T30UVG", "meta.xml")
FolderHrefs(d) ==
    IF d = 1
    THEN {Href("S2A", 20230101, "T30UVG", "stdsref.tif"),
          Href("S2B", 20230101, "T30UVF", "stdsref.tif")}
    ELSE {Href("S2A", 20230101, "T30UVG", "stdsref.tif"),
          Href("S2A", 20230100 + d, "T30UVF", "stdsref.tif")}

\* the raster file a link names (the query does not change the file)
FileOf(link) == [sat |-> link.sat, date |-> link.date, tile |-> link.tile]

\* the pixel summaries a raster read may give: whether the file opens, and
\* in the window of a feature the nodata pixels of band 1, the pixels of the
\* cloud mask with value 1 or 2, and the number of pixels
Pixels(open, nodata, cloud, size) ==
    [open |-> open, nodata |-> nodata, cloud |-> cloud, size |-> size]
RasterCases ==
    {Pixels(FALSE, 0, 0, 100), Pixels(TRUE, 0, 5, 100), Pixels(TRUE, 0, 12, 100)}

Row(ix, g, id, link, date, score) ==
    [ix |-> ix, geometry |-> g, id |-> id, image_link |-> link,
     image_date |-> date, s2cloudles |-> score]

ImageColumns == {"image_link", "image_date", "s2cloudles"}

Table(columns, rows) == [columns |-> columns, rows |-> rows]

\* None, where a table is expected
None == Table({}, <<>>)

\* the rows an earlier search left for a resolved feature g
OldLink(g, n) ==
    [sat |-> "S2A", date |-> 20221200 + n, tile |-> IF g = 1 THEN "T30UVG" ELSE "T30UVF",
     suffix |-> "stdsref.tif", query |-> ""]
OldRows(g) ==
    IF g = 1
    THEN << Row(0, g, g, OldLink(g, 1), <<2022, 12, 1>>, 3),
            Row(0, g, g, OldLink(g, 2), <<2022, 12, 2>>, 7) >>
    ELSE << Row(0, g, g, OldLink(g, 1), <<2022, 12, 1>>, 4) >>

RECURSIVE Reindex(_, _)
\* RangeIndex: index labels 0, 1, ... from position
Reindex(rows, from) ==
    IF rows = <<>> THEN <<>>
    ELSE <<[Head(rows) EXCEPT !.ix = from]>> \o Reindex(Tail(rows), from + 1)

RECURSIVE FileRows(_, _)
\* the rows of a result layer: features g.. in order, resolved as `status` says
FileRows(status, g) ==
    IF g > NumFeatures THEN <<>>
    ELSE (IF status[g] = "resolved" THEN OldRows(g)
          ELSE << Row(0, g, g, NoLink, NoDate, Nan) >>) \o FileRows(status, g + 1)

\* the feature layers a run may be given
InputFiles ==
    {Table({"id", "geometry"}, <<>>)}
    \cup {Table({"id", "geometry"}, Reindex(FileRows([g \in Features |-> "null"], 1), 0))}
    \cup {Table({"geometry"},
                Reindex([i \in 1 .. NumFeatures |-> Row(0, i, Nan, NoLink, NoDate, Nan)], 0))}
    \cup {Table({"id", "geometry"} \cup ImageColumns, Reindex(FileRows(st, 1), 0)) :
            st \in [Features -> {"null", "resolved"}]}

\* --start-date / --end-date as day numbers, 0 when the argument is absent
DateArgs == {<<1, 2>>, <<2, 1>>, <<0, 0>>}
\* --feature-cloud-percent
FeatureCloudArgs == {20, 150}

-----------------------------------------------------------------------------
(* Sequences *)

Range(s) == {s[i] : i \in DOMAIN s}

\* the sequences that list each element of S once
Enumerations(S) ==
    {s \in [1 .. Cardinality(S) -> S] : \A i, j \in DOMAIN s : s[i] = s[j] => i = j}

RECURSIVE Flatten(_)
Flatten(ss) == IF ss = <<>> THEN <<>> ELSE Head(ss) \o Flatten(Tail(ss))

DateLE(a, b) ==
    IF b = NoDate THEN TRUE
    ELSE IF a = NoDate THEN FALSE
    ELSE \/ a[1] < b[1]
         \/ a[1] = b[1] /\ a[2] < b[2]
         \/ a[1] = b[1] /\ a[2] = b[2] /\ a[3] <= b[3]

\* order of sort_values(by=[id, "image_date"]): nulls last
RowLE(a, b) == a.id < b.id \/ (a.id = b.id /\ DateLE(a.image_date, b.image_date))

RECURSIVE InsertRow(_, _)
InsertRow(rows, r) ==
    IF rows = <<>> THEN <<r>>
    ELSE IF RowLE(Head(rows), r) THEN <<Head(rows)>> \o InsertRow(Tail(rows), r)
    ELSE <<r>> \o rows

RECURSIVE SortValues(_)
\* DataFrame.sort_values(by=[id, "image_date"], ascending=True): a stable sort
SortValues(rows) ==
    IF rows = <<>> THEN <<>>
    ELSE InsertRow(SortValues(SubSeq(rows, 1, Len(rows) - 1)), rows[Len(rows)])

-----------------------------------------------------------------------------
(***************************************************************************)
(* FindS2 (src/src/ceda_s2/find.py)                                        *)
(***************************************************************************)

\* nodata_max of FindS2.__init__, which get_images never passes
NodataMaxDefault == 10

\* the attributes of the FindS2 object get_images constructs
FindS2Config(a) ==
    [check_img_cloud |-> a.tile_cloud_percent < 100,
     tile_cloud_max  |-> a.tile_cloud_percent,
     s2cloudless_max |-> a.feature_cloud_percent,
     nodata_max      |-> NodataMaxDefault,
     min_cloud_only  |-> a.min_cloud_only]

\* Python values a gate returns: False, a float, an int
PyFalse    == [t |-> "bool", x |-> FloatZero, i |-> 0]
PyFloat(x) == [t |-> "float", x |-> x, i |-> 0]
PyInt(i)   == [t |-> "int", x |-> FloatZero, i |-> i]
Truthy(v)  == (v.t = "float" /\ v.x # FloatZero) \/ (v.t = "int" /\ v.i # 0)

\* _check_id_column
CheckIdColumn(t) ==
    IF "id" \in t.columns THEN t
    ELSE Table(t.columns \cup {"id"},
               [k \in DOMAIN t.rows |-> [t.rows[k] EXCEPT !.id = t.rows[k].ix]])

\* _filter_sentinel2_tiles: tile_gdf / tile_list, left unset when the
\* reference layer cannot be read
FilterSentinel2Tiles(rows, fetched) ==
    [fetched |-> fetched,
     names   |-> IF fetched
                 THEN UNION {FeatureTiles(rows[k].geometry) : k \in DOMAIN rows}
                 ELSE {}]

NoTiles == [fetched |-> FALSE, names |-> {}]

\* _get_existing_folders: the date folders of the range, all of which exist
RECURSIVE ExistingFolders(_, _)
ExistingFolders(start, end) ==
    IF end < start THEN <<>> ELSE <<start>> \o ExistingFolders(start + 1, end)

\* _extract_links: the set of links taken from the anchors of one page
ExtractLinks(hrefs, tl) ==
    LET product(h) == h.suffix = "stdsref.tif" /\ h.query = "?download=1"
    IN IF tl.names # {}
       THEN {[h EXCEPT !.query = ""] : h \in {x \in hrefs : product(x) /\ x.tile \in tl.names}}
       ELSE {h \in hrefs : product(h)}

RECURSIVE AllImgLists(_, _)
\* all_img_list: the lists it may return for the pages `pages`; each page's
\* links are a set, extended into the list in its iteration order
AllImgLists(pages, tl) ==
    IF pages = <<>> THEN {<<>>}
    ELSE {h \o t : h \in Enumerations(ExtractLinks(Head(pages), tl)),
                   t \in AllImgLists(Tail(pages), tl)}

\* _img_bounds_filter: the image footprint is its tile
ImgBoundsFilter(g, link, px) == px.open /\ link.tile \in FeatureTiles(g)

\* _no_data_filter
NoDataFilter(px, self) ==
    /\ px.open
    /\ px.size > 0
    /\ FloatLtInt(Percent(px.nodata, px.size), self.nodata_max)

\* _s2_cloudless_filter
S2CloudlessFilter(px, self) ==
    IF px.open /\ px.size > 0
       /\ FloatLtInt(Percent(px.cloud, px.size), self.s2cloudless_max)
    THEN PyFloat(Percent(px.cloud, px.size))
    ELSE PyFalse

\* _extract_date_from_link
ExtractDateFromLink(link) ==
    IF link.date < 10000000 THEN NoDate
    ELSE <<link.date \div 10000, (link.date \div 100) % 100, link.date % 100>>

\* the answers a metadata request may get: none (timeout), a status other
\* than 200, or the XML text, in which the ARCSI_CLOUD_COVER line may be
\* absent; cover is the value of the line times 100
XmlCases ==
    {[status |-> "timeout", field |-> FALSE, cover |-> 0],
     [status |-> "404", field |-> FALSE, cover |-> 0],
     [status |-> "200", field |-> FALSE, cover |-> 0],
     [status |-> "200", field |-> TRUE, cover |-> 20],
     [status |-> "200", field |-> TRUE, cover |-> 80]}

\* _read_xml: the parsed text, or None
ReadXml(x) == [none |-> x.status # "200", text |-> x]

\* _extract_xml_cloud: the cloud cover, or None when the text is None (the
\* AttributeError is caught) or has no ARCSI_CLOUD_COVER line
ExtractXmlCloud(xml_extract) ==
    IF xml_extract.none \/ ~xml_extract.text.field
    THEN [none |-> TRUE, cover |-> 0]
    ELSE [none |-> FALSE, cover |-> xml_extract.text.cover]

\* _filter_overall_cloud: None * 100 raises TypeError
FilterOverallCloud(x, self) ==
    IF self.check_img_cloud
    THEN LET xml_cloud == ExtractXmlCloud(ReadXml(x))
         IN IF xml_cloud.none THEN [raised |-> TRUE, value |-> FALSE]
            ELSE [raised |-> FALSE, value |-> xml_cloud.cover <= self.tile_cloud_max]
    ELSE [raised |-> FALSE, value |-> TRUE]

RECURSIVE XmlRequests(_, _, _)
\* _overall_cloud_check_all: the metadata files _filter_overall_cloud asks
\* for, one for every element of the list until the first error
XmlRequests(image_links, x, self) ==
    IF image_links = <<>> \/ ~self.check_img_cloud THEN <<>>
    ELSE <<FileOf(Head(image_links))>>
         \o (IF FilterOverallCloud(x[FileOf(Head(image_links))], self).raised THEN <<>>
             ELSE XmlRequests(Tail(image_links), x, self))

RECURSIVE OverallCloudCheckAll(_, _, _)
\* _overall_cloud_check_all: the list comprehension, ended by the first error
OverallCloudCheckAll(image_links, x, self) ==
    IF image_links = <<>> THEN [raised |-> FALSE, links |-> <<>>]
    ELSE LET i == Head(image_links)
             check == FilterOverallCloud(x[FileOf(i)], self)
             rest == OverallCloudCheckAll(Tail(image_links), x, self)
         IN IF check.raised \/ rest.raised THEN [raised |-> TRUE, links |-> <<>>]
            ELSE [raised |-> FALSE,
                  links |-> (IF check.value THEN <<i>> ELSE <<>>) \o rest.links]

\* _validate_feature_image
ValidateFeatureImage(g, link, px, self) ==
    IF ~ImgBoundsFilter(g, link, px) THEN PyFalse
    ELSE IF ~NoDataFilter(px, self) THEN PyFalse
    ELSE LET cloud_percent_feature == S2CloudlessFilter(px, self)
         IN IF ~Truthy(cloud_percent_feature) THEN PyFalse
            ELSE PyInt(FloatTrunc(cloud_percent_feature.x))

\* every gate evaluated, whatever the earlier gates returned
AllGates(g, link, px, self) == <<"bounds", "nodata", "cloud">>

\* _validate_feature_image: the filters it calls, in the order of the calls
GatesEvaluated(g, link, px, self) ==
    IF ~ImgBoundsFilter(g, link, px) THEN <<"bounds">>
    ELSE IF ~NoDataFilter(px, self) THEN <<"bounds", "nodata">>
    ELSE <<"bounds", "nodata", "cloud">>

\* the links of the tiles of the feature that are in tile_list, also when
\* the reference layer was not read
LinksOfTiles(row, tl, image_links) ==
    SelectSeq(image_links, LAMBDA i : i.tile \in (FeatureTiles(row.geometry) \cap tl.names))

\* _find_images_per_feature, lines 474-485: the links tried for one feature
LinksForFeature(row, tl, image_links) ==
    IF tl.fetched
    THEN SelectSeq(image_links, LAMBDA i : i.tile \in (FeatureTiles(row.geometry) \cap tl.names))
    ELSE image_links

RECURSIVE RowsUntilError(_, _, _, _)
\* the rows of one feature when a raster that cannot be opened ends the loop
\* over its links
RowsUntilError(row, links, rst, self) ==
    IF links = <<>> \/ ~rst[FileOf(Head(links))].open THEN <<>>
    ELSE LET v == ValidateFeatureImage(row.geometry, Head(links), rst[FileOf(Head(links))], self)
         IN (IF Truthy(v)
             THEN << [id |-> row.id, image_link |-> Head(links),
                      image_date |-> ExtractDateFromLink(Head(links)),
                      s2cloudles |-> v.i] >>
             ELSE <<>>)
            \o RowsUntilError(row, Tail(links), rst, self)

RECURSIVE RowsForFeature(_, _, _, _)
\* _find_images_per_feature, lines 486-500
RowsForFeature(row, links, rst, self) ==
    IF links = <<>> THEN <<>>
    ELSE LET img_link == Head(links)
             valid_cloud_percent ==
                 ValidateFeatureImage(row.geometry, img_link, rst[FileOf(img_link)], self)
         IN (IF Truthy(valid_cloud_percent)
             THEN << [id |-> row.id, image_link |-> img_link,
                      image_date |-> ExtractDateFromLink(img_link),
                      s2cloudles |-> valid_cloud_percent.i] >>
             ELSE <<>>)
            \o RowsForFeature(row, Tail(links), rst, self)

RECURSIVE FindImagesPerFeature(_, _, _, _, _)
\* _find_images_per_feature
FindImagesPerFeature(rows, tl, image_links, rst, self) ==
    IF rows = <<>> THEN <<>>
    ELSE RowsForFeature(Head(rows), LinksForFeature(Head(rows), tl, image_links), rst, self)
         \o FindImagesPerFeature(Tail(rows), tl, image_links, rst, self)

\* the (row, link) pairs _find_images_per_feature validates
ValidatedPairs(rows, tl, image_links) ==
    UNION {{<<rows[k].ix, l>> : l \in Range(LinksForFeature(rows[k], tl, image_links))} :
             k \in DOMAIN rows}

RECURSIVE Ascending(_)
Ascending(S) ==
    IF S = {} THEN <<>>
    ELSE LET m == CHOOSE x \in S : \A y \in S : x <= y
         IN <<m>> \o Ascending(S \ {m})

\* the selection with idxmax in place of idxmin: the cloudiest image per feature
IdxMaxRows(results) ==
    LET ids == Ascending({results[k].id : k \in DOMAIN results})
        first_max(id) ==
            CHOOSE k \in DOMAIN results :
                /\ results[k].id = id
                /\ \A j \in DOMAIN results :
                     results[j].id = id =>
                        \/ results[k].s2cloudles > results[j].s2cloudles
                        \/ results[k].s2cloudles = results[j].s2cloudles /\ k <= j
    IN [n \in DOMAIN ids |-> results[first_max(ids[n])]]

\* the selection with a strict comparison: the rows that are less cloudy
\* than another row of their feature
StrictMinRows(results) ==
    SelectSeq(results,
              LAMBDA r : \E j \in DOMAIN results :
                            results[j].id = r.id /\ r.s2cloudles < results[j].s2cloudles)

\* results_df.loc[results_df.groupby(id)["s2cloudles"].idxmin()]
IdxMinRows(results) ==
    LET ids == Ascending({results[k].id : k \in DOMAIN results})
        first_min(id) ==
            CHOOSE k \in DOMAIN results :
                /\ results[k].id = id
                /\ \A j \in DOMAIN results :
                     results[j].id = id =>
                        \/ results[k].s2cloudles < results[j].s2cloudles
                        \/ results[k].s2cloudles = results[j].s2cloudles /\ k <= j
    IN [n \in DOMAIN ids |-> results[first_min(ids[n])]]

RECURSIVE MergeLeft(_, _)
\* aoi.merge(results_df, on=id, how="left")
MergeLeft(rows, results) ==
    IF rows = <<>> THEN <<>>
    ELSE LET r == Head(rows)
             found == SelectSeq(results, LAMBDA x : x.id = r.id)
         IN (IF found = <<>>
             THEN << Row(r.ix, r.geometry, r.id, NoLink, NoDate, Nan) >>
             ELSE [n \in DOMAIN found |->
                     Row(r.ix, r.geometry, r.id, found[n].image_link,
                         found[n].image_date, found[n].s2cloudles)])
            \o MergeLeft(Tail(rows), results)

\* _results_to_gdf
ResultsToGdf(t, results, self) ==
    LET results_df == IF self.min_cloud_only THEN IdxMinRows(results) ELSE results
    IN Table(t.columns \cup ImageColumns,
             Reindex(SortValues(MergeLeft(t.rows, results_df)), 0))

\* find_image_links, lines 555-562
FindImageLinks(t, tl, image_links, rst, self) ==
    LET found == FindImagesPerFeature(t.rows, tl, image_links, rst, self)
    IN IF found = <<>> THEN None ELSE ResultsToGdf(t, found, self)

-----------------------------------------------------------------------------
(***************************************************************************)
(* main and get_images (src/src/main.py)                                   *)
(***************************************************************************)

\* a file path: its directory, the parts of its stem between underscores
\* and its extension; a part is a text or a date YYYY-MM-DD (the day
\* numbers of --start-date / --end-date)
Tok(text) == [kind |-> "text", text |-> text, date |-> 0]
DateTok(d) == [kind |-> "date", text |-> "", date |-> d]
Path(parent, stem, extn) == [parent |-> parent, stem |-> stem, extn |-> extn]
NoPath == Path("", <<>>, "")

\* --search-features: a name without dates, and the name of the layer of an
\* earlier search
FeaturePaths ==
    {Path("data", <<Tok("aoi")>>, ".gpkg"),
     Path("data", <<Tok("aoi"), Tok(""), Tok("s2_search"), DateTok(2), DateTok(3)>>, ".gpkg")}

\* _save_features_path, lines 81-84: the stem ends with _<date>_<date>;
\* stem_name[-22] of a stem that is only the two dates raises IndexError
EndsWithDates(stem) ==
    /\ Len(stem) >= 2
    /\ stem[Len(stem) - 1].kind = "date"
    /\ stem[Len(stem)].kind = "date"

\* _save_features_path; output_name is assigned only in the if branch, so
\* the return of line 97 raises UnboundLocalError otherwise
SaveFeaturesPath(features_path, start_date, end_date) ==
    LET stem_name == features_path.stem
        n == Len(stem_name)
    IN IF ~EndsWithDates(stem_name)
       THEN [raised |-> "UnboundLocalError", path |-> NoPath]
       ELSE IF n = 2 THEN [raised |-> "IndexError", path |-> NoPath]
       ELSE LET existing_start_date == stem_name[n - 1].date
                existing_end_date == stem_name[n].date
                start == IF start_date > existing_start_date THEN existing_start_date
                         ELSE start_date
                end == IF end_date < existing_end_date THEN existing_end_date
                       ELSE end_date
            IN [raised |-> "none",
                path |-> Path(features_path.parent,
                              SubSeq(stem_name, 1, n - 2)
                                \o <<Tok(""), Tok("s2_search"), DateTok(start), DateTok(end)>>,
                              features_path.extn)]

\* --tile-cloud-percent: the default (no whole-tile check), and a threshold
TileCloudArgs == {100, 50}

ArgSets ==
    [features_path         : FeaturePaths,
     overwrite_search      : BOOLEAN,
     dates                 : DateArgs,
     plot                  : {FALSE},
     download              : {FALSE},
     tile_cloud_percent    : TileCloudArgs,
     feature_cloud_percent : FeatureCloudArgs,
     min_cloud_only        : BOOLEAN]

IsNa(r)  == r.image_link = NoLink
NotNa(r) == r.image_link # NoLink

\* main, lines 318-322
FullSearch(t, a) ==
    \/ "image_link" \notin t.columns
    \/ \A k \in DOMAIN t.rows : IsNa(t.rows[k])
    \/ a.overwrite_search

\* get_images, lines 147-151
NewSearch(t, a) ==
    \/ FullSearch(t, a)
    \/ "image_link" \notin t.columns
    \/ \E k \in DOMAIN t.rows : IsNa(t.rows[k])

\* drop(columns=["image_link", "image_date", "s2cloudles"])
DropImageColumns(t) ==
    Table(t.columns \ ImageColumns,
          [k \in DOMAIN t.rows |->
             [t.rows[k] EXCEPT !.image_link = NoLink, !.image_date = NoDate,
                               !.s2cloudles = Nan]])

RECURSIVE KeepFirstGeometry(_, _)
\* search_features[~search_features.geometry.duplicated()]
KeepFirstGeometry(rows, seen) ==
    IF rows = <<>> THEN <<>>
    ELSE (IF Head(rows).geometry \in seen THEN <<>> ELSE <<Head(rows)>>)
         \o KeepFirstGeometry(Tail(rows), seen \cup {Head(rows).geometry})

\* get_images, lines 152-155
AfterOverwrite(t, a) ==
    IF FullSearch(t, a) /\ "image_link" \in t.columns
    THEN Table(t.columns \ ImageColumns, KeepFirstGeometry(DropImageColumns(t).rows, {}))
    ELSE t

\* get_images, lines 158-162: whether rows of the earlier search are kept
KeepsExisting(t) ==
    "image_link" \in t.columns /\ \E k \in DOMAIN t.rows : NotNa(t.rows[k])

\* get_images, lines 157-162: existing_search
ExistingSearch(t, a) ==
    LET sf == AfterOverwrite(t, a)
    IN IF KeepsExisting(sf) THEN Table(sf.columns, SelectSeq(sf.rows, NotNa)) ELSE None

\* the features handed to FindS2 without the isna() selection of line 164
SearchAllFeatures(t, a) ==
    DropImageColumns(AfterOverwrite(t, a))

\* get_images, lines 163-165: the features handed to FindS2
SearchFeatures(t, a) ==
    LET sf == AfterOverwrite(t, a)
    IN IF KeepsExisting(sf)
       THEN DropImageColumns(Table(sf.columns, SelectSeq(sf.rows, IsNa)))
       ELSE sf

\* get_images, lines 194-200: the layer that is saved
MergedResult(found, existing) ==
    Table(found.columns,
          SortValues(IF existing # None THEN found.rows \o existing.rows ELSE found.rows))

ImageCount(t) == Len(SelectSeq(t.rows, NotNa))

-----------------------------------------------------------------------------
(* The run of main() *)

Init ==
    /\ pc = "main"
    /\ args \in ArgSets
    /\ file \in InputFiles
    /\ "image_link" \in file.columns => EndsWithDates(args.features_path.stem)
    /\ error = "none"
    /\ events = {}
    /\ aoi = None
    /\ existing_search = None
    /\ tile_list = NoTiles
    /\ listing = <<>>
    /\ img_links = <<>>
    /\ raster = <<>>
    /\ validated = {}
    /\ result_list = <<>>
    /\ image_features = None
    /\ saved = None
    /\ gate_in = <<>>
    /\ gate_out = <<>>
    /\ xml = <<>>
    /\ xml_reads = <<>>
    /\ save_path = NoPath
    /\ tasks = <<>>
    /\ npz = <<>>
    /\ written = {}
    /\ failed = {}
    /\ band_descriptions = "None"

Raise(e) == pc' = "raised" /\ error' = e

\* main, lines 317-346: the checks of the arguments
Main ==
    /\ pc = "main"
    /\ LET full_search == FullSearch(file, args)
       IN IF full_search /\ (args.dates[1] = 0 \/ args.dates[2] = 0)
          THEN Raise("ValueError")
          ELSE IF full_search /\ args.dates[2] <= args.dates[1]
          THEN Raise("ValueError")
          ELSE IF args.tile_cloud_percent > 100 \/ args.tile_cloud_percent < 0
          THEN Raise("ValueError")
          ELSE IF args.feature_cloud_percent > 100 \/ args.feature_cloud_percent < 0
          THEN Raise("ValueError")
          ELSE pc' = "get_images" /\ UNCHANGED error
    /\ UNCHANGED << args, file, events, aoi, existing_search, tile_list, listing,
                    img_links, raster, validated, result_list, image_features,
                    saved, gate_in, gate_out, xml, xml_reads, save_path, download >>

\* get_images, lines 146-187: what is searched and what is kept
GetImages ==
    /\ pc = "get_images"
    /\ IF NewSearch(file, args)
       THEN /\ existing_search' = ExistingSearch(file, args)
            /\ aoi' = SearchFeatures(file, args)
            /\ pc' = "find_image_links"
            /\ UNCHANGED << error, image_features >>
       ELSE /\ UNCHANGED << existing_search, aoi >>
            /\ IF ~args.plot /\ ~args.download
               THEN Raise("ValueError") /\ UNCHANGED image_features
               ELSE pc' = "finish" /\ image_features' = file /\ UNCHANGED error
    /\ UNCHANGED << args, file, events, tile_list, listing, img_links, raster,
                    validated, result_list, saved, gate_in, gate_out, xml, xml_reads, save_path, download >>

\* find_image_links, lines 541-545: the id column, and the tile reference
\* layer, which is read or not
FindTiles ==
    /\ pc = "find_image_links"
    /\ \E fetched \in BOOLEAN :
         /\ aoi' = CheckIdColumn(aoi)
         /\ tile_list' = FilterSentinel2Tiles(aoi.rows, fetched)
    /\ events' = events \cup {"tile_layer"}
    /\ pc' = "all_img_list"
    /\ UNCHANGED << args, file, error, existing_search, listing, img_links, raster,
                    validated, result_list, image_features, saved, gate_in, gate_out, xml, xml_reads, save_path, download >>

\* find_image_links, line 547: all_img_list over the date folders, whose
\* pages hold any of the anchors of the archive
FindAllImgList ==
    /\ pc = "all_img_list"
    /\ IF args.dates[1] = 0 \/ args.dates[2] = 0
       THEN /\ Raise("TypeError")
            /\ UNCHANGED << listing, img_links, events >>
       ELSE LET date_urls == ExistingFolders(args.dates[1], args.dates[2])
            IN /\ listing' \in [DOMAIN date_urls -> UNION {SUBSET FolderHrefs(d) : d \in Range(date_urls)}]
               /\ \A k \in DOMAIN date_urls : listing'[k] \subseteq FolderHrefs(date_urls[k])
               /\ img_links' \in AllImgLists([k \in DOMAIN date_urls |->
                                                listing'[k] \cup {HrefMeta(date_urls[k])}],
                                             tile_list)
               /\ events' = IF date_urls = <<>> THEN events ELSE events \cup {"listing"}
               /\ pc' = IF FindS2Config(args).check_img_cloud THEN "overall_cloud"
                        ELSE "per_feature"
               /\ UNCHANGED error
    /\ UNCHANGED << args, file, aoi, existing_search, tile_list, raster, validated,
                    result_list, image_features, saved, gate_in, gate_out, xml, xml_reads, save_path, download >>

\* find_image_links, lines 549-553: _overall_cloud_check_all over the
\* metadata files of the archive
FindOverallCloud ==
    /\ pc = "overall_cloud"
    /\ xml' \in [{FileOf(l) : l \in Range(img_links)} -> XmlCases]
    /\ LET checked == OverallCloudCheckAll(img_links, xml', FindS2Config(args))
       IN IF checked.raised
          THEN Raise("TypeError") /\ UNCHANGED img_links
          ELSE img_links' = checked.links /\ pc' = "per_feature" /\ UNCHANGED error
    /\ xml_reads' = XmlRequests(img_links, xml', FindS2Config(args))
    /\ events' = IF img_links = <<>> THEN events ELSE events \cup {"xml"}
    /\ UNCHANGED << args, file, aoi, existing_search, tile_list, listing, raster,
                    validated, result_list, image_features, saved, gate_in, gate_out,
                    save_path, download >>

\* find_image_links, line 555: _find_images_per_feature over the rasters of
\* the archive
FindPerFeature ==
    /\ pc = "per_feature"
    /\ LET pairs == ValidatedPairs(aoi.rows, tile_list, img_links)
       IN /\ raster' \in [{FileOf(l) : l \in Range(img_links)} -> RasterCases]
          /\ result_list' = FindImagesPerFeature(aoi.rows, tile_list, img_links, raster',
                                                  FindS2Config(args))
          /\ validated' = pairs
          /\ events' = IF pairs = {} THEN events ELSE events \cup {"raster"}
    /\ pc' = "results"
    /\ UNCHANGED << args, file, error, aoi, existing_search, tile_list, listing,
                    img_links, image_features, saved, gate_in, gate_out, xml, xml_reads, save_path, download >>

\* find_image_links, lines 557-562, returning to get_images line 178
FindReturn ==
    /\ pc = "results"
    /\ image_features' = IF result_list = <<>> THEN None
                         ELSE ResultsToGdf(aoi, result_list, FindS2Config(args))
    /\ pc' = "finish"
    /\ UNCHANGED << args, file, error, events, aoi, existing_search, tile_list,
                    listing, img_links, raster, validated, result_list, saved,
                    gate_in, gate_out, xml, xml_reads, save_path, download >>

\* get_images, lines 189-213
GetImagesFinish ==
    /\ pc = "finish"
    /\ IF image_features = None
       THEN Raise("AttributeError") /\ UNCHANGED << image_features, saved, save_path >>
       ELSE IF ImageCount(image_features) > 0 /\ NewSearch(file, args)
       THEN LET merged == MergedResult(image_features, existing_search)
                to == SaveFeaturesPath(args.features_path, args.dates[1], args.dates[2])
            IN IF to.raised # "none"
               THEN Raise(to.raised) /\ UNCHANGED << image_features, saved, save_path >>
               ELSE /\ image_features' = merged
                    /\ saved' = merged
                    /\ save_path' = to.path
                    /\ pc' = "done"
                    /\ UNCHANGED error
       ELSE pc' = "done" /\ UNCHANGED << error, image_features, saved, save_path >>
    /\ UNCHANGED << args, file, events, aoi, existing_search, tile_list, listing,
                    img_links, raster, validated, result_list, gate_in, gate_out, xml, xml_reads, download >>

Next ==
    \/ Main
    \/ GetImages
    \/ FindTiles
    \/ FindAllImgList
    \/ FindOverallCloud
    \/ FindPerFeature
    \/ FindReturn
    \/ GetImagesFinish

Spec == Init /\ [][Next]_vars

-----------------------------------------------------------------------------
(***************************************************************************)
(* SpecGate: the gates of FindS2 on one pixel window.  The window belongs  *)
(* to feature 1 and an image of its tile that opens; the thresholds are    *)
(* the defaults of FindS2.__init__ or 58, given for both thresholds.       *)
(***************************************************************************)
GateThresholds == {NodataMaxDefault, 58}

GateLink == [sat |-> "S2A", date |-> 20230101, tile |-> "T30UVG",
             suffix |-> "stdsref.tif", query |-> ""]

GateRow == Row(0, 1, 1, NoLink, NoDate, Nan)

\* an image of a tile that does not meet feature 1
GateFarLink == [GateLink EXCEPT !.tile = "T30VWJ"]

GateConfig(t) ==
    [FindS2Config([tile_cloud_percent |-> 100, feature_cloud_percent |-> t,
                   min_cloud_only |-> FALSE])
       EXCEPT !.nodata_max = t]

GateInputs ==
    {[px |-> Pixels(TRUE, n, c, w), link |-> GateLink, self |-> GateConfig(t)] :
        <<n, c, w, t>> \in
           {q \in (0 .. MaxWindow) \X (0 .. MaxWindow) \X (0 .. MaxWindow) \X GateThresholds :
               q[1] <= q[3] /\ q[2] <= q[3] /\ (q[1] = 0 \/ q[2] = 1)}}
    \cup
    [px   : {Pixels(FALSE, 0, 0, 0), Pixels(TRUE, 0, 1, 4), Pixels(TRUE, 4, 1, 4)},
     link : {GateLink, GateFarLink},
     self : {GateConfig(t) : t \in GateThresholds}]

InitGate ==
    /\ pc = "gate"
    /\ gate_in \in GateInputs
    /\ gate_out = <<>>
    /\ args = <<>>
    /\ file = None
    /\ error = "none"
    /\ events = {}
    /\ aoi = None
    /\ existing_search = None
    /\ tile_list = NoTiles
    /\ listing = <<>>
    /\ img_links = <<>>
    /\ raster = <<>>
    /\ validated = {}
    /\ result_list = <<>>
    /\ image_features = None
    /\ saved = None
    /\ xml = <<>>
    /\ xml_reads = <<>>
    /\ save_path = NoPath
    /\ tasks = <<>>
    /\ npz = <<>>
    /\ written = {}
    /\ failed = {}
    /\ band_descriptions = "None"

GateUnchanged ==
    UNCHANGED << args, file, error, events, aoi, existing_search, tile_list, listing,
                 img_links, raster, validated, result_list, image_features, saved,
                 gate_in, xml, xml_reads, save_path, download >>

\* _no_data_filter on the window
GateNoData ==
    /\ pc = "gate"
    /\ gate_out' = [nodata |-> NoDataFilter(gate_in.px, gate_in.self)]
    /\ pc' = "gate_nodata"
    /\ GateUnchanged

\* _s2_cloudless_filter on the window
GateCloud ==
    /\ pc = "gate"
    /\ gate_out' = [cloud |-> S2CloudlessFilter(gate_in.px, gate_in.self)]
    /\ pc' = "gate_cloud"
    /\ GateUnchanged

\* _validate_feature_image on the window, and the rows that
\* _find_images_per_feature appends for it
GateValidate ==
    /\ pc = "gate"
    /\ gate_out' =
         [valid |-> ValidateFeatureImage(1, gate_in.link, gate_in.px, gate_in.self),
          gates |-> GatesEvaluated(1, gate_in.link, gate_in.px, gate_in.self),
          rows  |-> RowsForFeature(GateRow, <<gate_in.link>>,
                                   [f \in {FileOf(gate_in.link)} |-> gate_in.px],
                                   gate_in.self)]
    /\ pc' = "gate_valid"
    /\ GateUnchanged

NextGate == GateNoData \/ GateCloud \/ GateValidate

SpecGate == InitGate /\ [][NextGate]_vars

-----------------------------------------------------------------------------
(***************************************************************************)
(* Sentinel-1 search (src/src/ceda_s1/find.py: FindS1, and the entry point *)
(* src/src/s1_search.py).  A link is the text of an href, held by the      *)
(* parts of its file name "<sat>_<date>_<orbit>_<dir>_..._GB_OSGB_..._     *)
(* SpkRL.tif<query>", in the folder of its date.                           *)
(***************************************************************************)

\* columns of the pixel window of the AOI bounds in a Sentinel-1 image
GridCols == 7

\* FindS1.__init__: max_no_data_patch=10
MaxNoDataPatchDefault == 10

\* FindS1.__init__: orbit_numbers
OrbitNumbersDefault == {30, 52, 103, 125, 132}

\* an orbit token of a file name that is no integer
NotInt == 0 - 2

S1Href(sat, date, orbit, dir) ==
    [sat |-> sat, date |-> date, orbit |-> orbit, dir |-> dir,
     region |-> "GB_OSGB", suffix |-> "SpkRL.tif", query |-> "?download=1"]

\* the anchors a listing page of date folder d (1 = start date) may hold;
\* the first scene is also linked from folder 2, and folder 2 has a file
\* named with orbit 125 and the ascending direction
S1FolderHrefs(d) ==
    IF d = 1
    THEN {S1Href("S1A", 20230101, 30, "asc"),
          S1Href("S1B", 20230101, 52, "asc"),
          S1Href("S1A", 20230101, NotInt, "asc")}
    ELSE {S1Href("S1A", 20230101, 30, "asc"),
          S1Href("S1B", 20230100 + d, 125, "desc"),
          S1Href("S1A", 20230100 + d, 125, "asc")}

\* the pixels of the window of the AOI bounds in a full image
GridCells == (1 .. 2) \X (1 .. GridCols)

\* what rio.open and src.read(window) give for an image: whether the file
\* opens, the shape of the window clipped to the image, whether the image
\* footprint contains the AOI bounds, and the pixels of band index 1 that
\* equal the nodata value
Window(open, shape, contains, nodata) ==
    [open |-> open, shape |-> shape, contains |-> contains, nodata |-> nodata]

S1RasterCases ==
    {Window(FALSE, <<0, 0>>, FALSE, {}),
     Window(TRUE, <<0, 0>>, FALSE, {}),
     Window(TRUE, <<2, 2>>, FALSE, {}),
     Window(TRUE, <<2, GridCols>>, TRUE, {<<1, 1>>, <<2, 3>>}),
     Window(TRUE, <<2, GridCols>>, TRUE, GridCells \ {<<1, 1>>})}

\* the attributes of the FindS1 object s1_search constructs
FindS1Config(a) ==
    [orbit_numbers     |-> a.orbit_numbers,
     filter_orbits     |-> a.no_orbit_filter,
     max_no_data_patch |-> MaxNoDataPatchDefault]

\* FindS1._extract_links: the set of links taken from the anchors of one
\* page; int() of an orbit token that is no integer raises ValueError
S1ExtractLinks(hrefs, self) ==
    LET product == {h \in hrefs : h.suffix = "SpkRL.tif" /\ h.query = "?download=1"}
    IN IF \E h \in product : h.orbit = NotInt
       THEN [raised |-> TRUE, links |-> {}]
       ELSE [raised |-> FALSE,
             links  |-> {[h EXCEPT !.query = ""] :
                           h \in {x \in product : /\ x.orbit \in self.orbit_numbers
                                                  /\ x.region = "GB_OSGB"}}]

RECURSIVE S1ImgLists(_, _)
\* get_img_list, lines 315-319: the lists img_links may be after the loop;
\* each page's links are a set, extended into the list in its iteration order
S1ImgLists(pages, self) ==
    IF pages = <<>> THEN {<<>>}
    ELSE {h \o t : h \in Enumerations(S1ExtractLinks(Head(pages), self).links),
                   t \in S1ImgLists(Tail(pages), self)}

\* _spatial_check_images: the window read is not empty
SpatialCheckImages(img_list, rst) ==
    SelectSeq(img_list, LAMBDA l : /\ rst[l].open
                                   /\ rst[l].shape[1] > 0
                                   /\ rst[l].shape[2] > 0)

RECURSIVE Grow(_, _)
\* scipy.ndimage.label: the connected region of `cells` around `region`,
\* pixels being connected along rows and columns
Grow(region, cells) ==
    LET next == {c \in cells \ region :
                   \E r \in region : \/ (c[1] = r[1] /\ (c[2] = r[2] + 1 \/ c[2] = r[2] - 1))
                                     \/ (c[2] = r[2] /\ (c[1] = r[1] + 1 \/ c[1] = r[1] - 1))}
    IN IF next = {} THEN region ELSE Grow(region \cup next, cells)

\* the number of nodata pixels of the window, whatever their regions
CountNodata(binary_image) == Cardinality(binary_image)

\* _find_largest_region
FindLargestRegion(binary_image) ==
    IF binary_image = {} THEN 0
    ELSE LET component_sizes == {Cardinality(Grow({c}, binary_image)) : c \in binary_image}
         IN CHOOSE m \in component_sizes : \A n \in component_sizes : n <= m

\* _filter_nodata
FilterNodata(img_list, rst, self) ==
    SelectSeq(img_list, LAMBDA l : /\ rst[l].open
                                   /\ rst[l].shape[1] > 0
                                   /\ rst[l].shape[2] > 0
                                   /\ FindLargestRegion(rst[l].nodata) <= self.max_no_data_patch)

RECURSIVE OrbitKeys(_, _)
\* _count_orbits: the keys of the dictionary of one direction, in the order
\* of their first image
OrbitKeys(img_list, dir) ==
    IF img_list = <<>> THEN <<>>
    ELSE LET rest == OrbitKeys(Tail(img_list), dir)
             o == Head(img_list).orbit
         IN IF Head(img_list).dir = dir
            THEN <<o>> \o SelectSeq(rest, LAMBDA k : k # o)
            ELSE rest

\* _count_orbits: the number of images of an orbit and direction
OrbitCount(img_list, dir, o) ==
    Len(SelectSeq(img_list, LAMBDA l : l.dir = dir /\ l.orbit = o))

RECURSIVE SortedOrbits(_, _, _)
\* _count_orbits: sorted(..., key=count, reverse=True), which keeps the
\* order of keys of equal count
SortedOrbits(keys, img_list, dir) ==
    IF keys = <<>> THEN <<>>
    ELSE LET k == CHOOSE i \in DOMAIN keys :
                    /\ \A j \in DOMAIN keys :
                         OrbitCount(img_list, dir, keys[j]) <= OrbitCount(img_list, dir, keys[i])
                    /\ \A j \in 1 .. (i - 1) :
                         OrbitCount(img_list, dir, keys[j]) < OrbitCount(img_list, dir, keys[i])
         IN <<keys[k]>> \o SortedOrbits(SelectSeq(keys, LAMBDA x : x # keys[k]), img_list, dir)

\* _count_orbits
CountOrbits(img_list) ==
    [asc  |-> SortedOrbits(OrbitKeys(img_list, "asc"), img_list, "asc"),
     desc |-> SortedOrbits(OrbitKeys(img_list, "desc"), img_list, "desc")]

\* _filter_image_extent without the filter of lines 297-302
FilterExtentOnly(img_list, rst, self) ==
    LET checked == FilterNodata(SpatialCheckImages(img_list, rst), rst, self)
        sorted == CountOrbits(checked)
    IN IF self.filter_orbits /\ (sorted.asc = <<>> \/ sorted.desc = <<>>)
       THEN [raised |-> TRUE, img_list |-> <<>>]
       ELSE [raised |-> FALSE, img_list |-> checked]

\* _filter_image_extent; [0] of an empty list of keys raises IndexError
FilterImageExtent(img_list, rst, self) ==
    LET checked == FilterNodata(SpatialCheckImages(img_list, rst), rst, self)
        sorted == CountOrbits(checked)
    IN IF ~self.filter_orbits THEN [raised |-> FALSE, img_list |-> checked]
       ELSE IF sorted.asc = <<>> \/ sorted.desc = <<>>
       THEN [raised |-> TRUE, img_list |-> <<>>]
       ELSE [raised |-> FALSE,
             img_list |-> SelectSeq(checked,
                                    LAMBDA x : x.orbit \in {sorted.asc[1], sorted.desc[1]})]

\* s1_search.main: the arguments of a search (--image-links-pkl absent, no
\* download); --no-orbit-filter is a store_false flag handed to filter_orbits
S1ArgSets ==
    [dates           : {<<1, 2>>},
     orbit_numbers   : {OrbitNumbersDefault},
     no_orbit_filter : BOOLEAN]

InitS1 ==
    /\ pc = "s1_search"
    /\ args \in S1ArgSets
    /\ file = None
    /\ error = "none"
    /\ events = {}
    /\ aoi = None
    /\ existing_search = None
    /\ tile_list = NoTiles
    /\ listing = <<>>
    /\ img_links = <<>>
    /\ raster = <<>>
    /\ validated = {}
    /\ result_list = <<>>
    /\ image_features = None
    /\ saved = <<>>
    /\ gate_in = <<>>
    /\ gate_out = <<>>
    /\ xml = <<>>
    /\ xml_reads = <<>>
    /\ save_path = NoPath
    /\ tasks = <<>>
    /\ npz = <<>>
    /\ written = {}
    /\ failed = {}
    /\ band_descriptions = "None"

\* get_img_list, lines 315-319: the listing pages of the date folders, which
\* hold any of the anchors of the archive
S1GetLinks ==
    /\ pc = "s1_search"
    /\ LET date_urls == ExistingFolders(args.dates[1], args.dates[2])
           self == FindS1Config(args)
       IN /\ listing' \in [DOMAIN date_urls -> UNION {SUBSET S1FolderHrefs(d) : d \in Range(date_urls)}]
          /\ \A k \in DOMAIN date_urls : listing'[k] \subseteq S1FolderHrefs(date_urls[k])
          /\ IF \E k \in DOMAIN date_urls : S1ExtractLinks(listing'[k], self).raised
             THEN Raise("ValueError") /\ UNCHANGED img_links
             ELSE /\ img_links' \in S1ImgLists(listing', self)
                  /\ pc' = "s1_extent"
                  /\ UNCHANGED error
    /\ events' = events \cup {"listing"}
    /\ UNCHANGED << args, file, aoi, existing_search, tile_list, raster, validated,
                    result_list, image_features, saved, gate_in, gate_out, xml, xml_reads, save_path, download >>

\* get_img_list, lines 321-324: _filter_image_extent over the rasters of the
\* archive
S1FilterExtent ==
    /\ pc = "s1_extent"
    /\ raster' \in [Range(img_links) -> S1RasterCases]
    /\ LET filtered == FilterImageExtent(img_links, raster', FindS1Config(args))
       IN IF filtered.raised
          THEN Raise("IndexError") /\ UNCHANGED result_list
          ELSE result_list' = filtered.img_list /\ pc' = "s1_save" /\ UNCHANGED error
    /\ events' = IF img_links = <<>> THEN events ELSE events \cup {"raster"}
    /\ UNCHANGED << args, file, aoi, existing_search, tile_list, listing, img_links,
                    validated, image_features, saved, gate_in, gate_out, xml, xml_reads, save_path, download >>

\* s1_search.main, lines 112-131: the list is written as it was returned
S1Save ==
    /\ pc = "s1_save"
    /\ saved' = result_list
    /\ pc' = "done"
    /\ UNCHANGED << args, file, error, events, aoi, existing_search, tile_list, listing,
                    img_links, raster, validated, result_list, image_features,
                    gate_in, gate_out, xml, xml_reads, save_path, download >>

NextS1 == S1GetLinks \/ S1FilterExtent \/ S1Save

SpecS1 == InitS1 /\ [][NextS1]_vars

-----------------------------------------------------------------------------
(***************************************************************************)
(* SpecPatch: FindS1._filter_nodata on one image whose window is read, for *)
(* every nodata mask of the window.                                        *)
(***************************************************************************)
PatchThresholds == {3, MaxNoDataPatchDefault}

PatchLink == [S1Href("S1A", 20230101, 30, "asc") EXCEPT !.query = ""]

PatchInputs ==
    {[px   |-> Window(TRUE, <<2, GridCols>>, TRUE, nodata),
      self |-> [FindS1Config([orbit_numbers |-> OrbitNumbersDefault,
                              no_orbit_filter |-> FALSE])
                  EXCEPT !.max_no_data_patch = t]] :
        nodata \in SUBSET GridCells, t \in PatchThresholds}

InitPatch ==
    /\ pc = "patch"
    /\ gate_in \in PatchInputs
    /\ gate_out = <<>>
    /\ args = <<>>
    /\ file = None
    /\ error = "none"
    /\ events = {}
    /\ aoi = None
    /\ existing_search = None
    /\ tile_list = NoTiles
    /\ listing = <<>>
    /\ img_links = <<>>
    /\ raster = <<>>
    /\ validated = {}
    /\ result_list = <<>>
    /\ image_features = None
    /\ saved = None
    /\ xml = <<>>
    /\ xml_reads = <<>>
    /\ save_path = NoPath
    /\ tasks = <<>>
    /\ npz = <<>>
    /\ written = {}
    /\ failed = {}
    /\ band_descriptions = "None"

\* _filter_nodata on the list of the one image
PatchFilterNodata ==
    /\ pc = "patch"
    /\ gate_out' = [retained_images |->
                      FilterNodata(<<PatchLink>>, [l \in {PatchLink} |-> gate_in.px],
                                   gate_in.self)]
    /\ pc' = "patch_done"
    /\ GateUnchanged

NextPatch == PatchFilterNodata

SpecPatch == InitPatch /\ [][NextPatch]_vars

-----------------------------------------------------------------------------
(***************************************************************************)
(* SpecDownload: S1Downloader.download_images in npz mode                  *)
(* (src/src/ceda_s1/download.py).                                          *)
(***************************************************************************)

\* the feature ids of the AOI file
DownloadIds == {1, 2}

DownloadLink(sat, date, orbit) ==
    [S1Href(sat, date, orbit, "asc") EXCEPT !.query = ""]

\* the lists of links a feature id may be mapped to
DownloadLists ==
    {<<>>,
     <<DownloadLink("S1A", 20230101, 30)>>,
     <<DownloadLink("S1A", 20230101, 30), DownloadLink("S1B", 20230101, 52)>>}

\* Path(img).stem: the file name without its extension
StemOf(img) == [sat |-> img.sat, date |-> img.date, orbit |-> img.orbit, dir |-> img.dir]

\* what _get_array meets for an image and the window of a feature: the file
\* cannot be read, the window is empty, every pixel is nodata, or data
ReadCases == {"error", "empty", "nodata", "data"}

\* _get_array in npz mode: whether it returns an array (not None)
GetArray(read) == read = "data"

\* a file of the output folder: whether it exists, and its keys
NoFile == [exists |-> FALSE, keys |-> {}]
OldFile == [exists |-> TRUE, keys |-> {StemOf(DownloadLink("S1A", 20221201, 30))}]

\* S1Downloader(...): image_links, feature_ids (None, or a list) and
\* use_threads; existing holds the ids whose npz file is in the output folder
DownloadArgSets ==
    [image_links : [DownloadIds -> DownloadLists],
     feature_ids : {[given |-> FALSE, ids |-> {}], [given |-> TRUE, ids |-> {}],
                    [given |-> TRUE, ids |-> {1}]},
     use_threads : BOOLEAN,
     existing    : SUBSET DownloadIds]

\* download_images, lines 225 and 235: not self.feature_ids or id in
\* self.feature_ids, over the items of the dictionary in their order
TasksOf(a) ==
    SelectSeq(Ascending(DownloadIds),
              LAMBDA id : a.feature_ids.ids = {} \/ id \in a.feature_ids.ids)

\* a key for every link, read or not
ImgDictAll(links, reads) == {StemOf(links[k]) : k \in DOMAIN links}

\* _process_image_npz, lines 191-202: the keys of img_dict
ImgDict(links, reads) ==
    {StemOf(links[k]) : k \in {i \in DOMAIN links : GetArray(reads[i])}}

InitDownload ==
    /\ pc = "download_images"
    /\ args \in DownloadArgSets
    /\ npz = [id \in DownloadIds |-> IF id \in args.existing THEN OldFile ELSE NoFile]
    /\ tasks = <<>>
    /\ written = {}
    /\ failed = {}
    /\ band_descriptions = "None"
    /\ file = None
    /\ error = "none"
    /\ events = {}
    /\ aoi = None
    /\ existing_search = None
    /\ tile_list = NoTiles
    /\ listing = <<>>
    /\ img_links = <<>>
    /\ raster = <<>>
    /\ validated = {}
    /\ result_list = <<>>
    /\ image_features = None
    /\ saved = None
    /\ gate_in = <<>>
    /\ gate_out = <<>>
    /\ xml = <<>>
    /\ xml_reads = <<>>
    /\ save_path = NoPath

DownloadUnchanged ==
    UNCHANGED << args, file, error, events, aoi, existing_search, tile_list, listing,
                 img_links, validated, result_list, image_features, saved, gate_in,
                 gate_out, xml, xml_reads, save_path, band_descriptions >>

\* download_images, lines 214-226 and 234-235: the features to process
DownloadImages ==
    /\ pc = "download_images"
    /\ tasks' = TasksOf(args)
    /\ pc' = "processing"
    /\ UNCHANGED << raster, npz, written, failed >>
    /\ DownloadUnchanged

\* the tasks left when an exception of a task ends the whole download
TasksUnlessRaised(ts, k, raised) ==
    IF raised THEN <<>> ELSE SubSeq(ts, 1, k - 1) \o SubSeq(ts, k + 1, Len(ts))

\* download_images, lines 229-240: the tasks left after task k ended; its
\* exception is caught and logged
TasksAfter(ts, k, raised) == SubSeq(ts, 1, k - 1) \o SubSeq(ts, k + 1, Len(ts))

\* _process_image_npz for one feature: the next of the loop, or any
\* submitted to the thread pool; np.savez_compressed writes the file or
\* raises
ProcessImageNpz ==
    /\ pc = "processing"
    /\ \E k \in DOMAIN tasks :
         /\ args.use_threads \/ k = 1
         /\ LET id == tasks[k]
                img_links_id == args.image_links[id]
            IN IF npz[id].exists
               THEN /\ tasks' = TasksAfter(tasks, k, FALSE)
                    /\ UNCHANGED << raster, npz, written, failed >>
               ELSE \E reads \in [DOMAIN img_links_id -> ReadCases], raised \in BOOLEAN :
                      /\ tasks' = TasksAfter(tasks, k, raised)
                      /\ raster' = (id :> reads) @@ raster
                      /\ IF raised
                         THEN failed' = failed \cup {id} /\ UNCHANGED << npz, written >>
                         ELSE /\ npz' = [npz EXCEPT ![id] =
                                           [exists |-> TRUE,
                                            keys |-> ImgDict(img_links_id, reads)]]
                              /\ written' = written \cup {id}
                              /\ UNCHANGED failed
    /\ UNCHANGED pc
    /\ DownloadUnchanged

\* download_images, line 242: "Download complete."
DownloadComplete ==
    /\ pc = "processing"
    /\ tasks = <<>>
    /\ pc' = "done"
    /\ UNCHANGED << raster, tasks, npz, written, failed >>
    /\ DownloadUnchanged

NextDownload == DownloadImages \/ ProcessImageNpz \/ DownloadComplete

SpecDownload == InitDownload /\ [][NextDownload]_vars

-----------------------------------------------------------------------------
(***************************************************************************)
(* SpecImages: ImageDownloader.download_from_gdf                           *)
(* (src/src/ceda_s2/download.py) on the tables get_images hands to it.     *)
(***************************************************************************)

\* result layers of an earlier search: those of InputFiles, and layers whose
\* rows are not in the order of their ids
ResumeFiles ==
    {t \in InputFiles : "image_link" \in t.columns}
    \cup {Table({"id", "geometry"} \cup ImageColumns, Reindex(rows, 0)) :
            rows \in {<< Row(0, 2, 2, NoLink, NoDate, Nan) >> \o OldRows(1),
                      OldRows(2) \o << Row(0, 1, 1, NoLink, NoDate, Nan) >>,
                      OldRows(2) \o OldRows(1)}}

\* the n-th passing candidate of feature id g in a new search
NewResult(g, n) ==
    [id |-> g,
     image_link |-> [sat |-> "S2A", date |-> 20230100 + n,
                     tile |-> IF g = 1 THEN "T30UVG" ELSE "T30UVF",
                     suffix |-> "stdsref.tif", query |-> ""],
     image_date |-> <<2023, 1, n>>, s2cloudles |-> 5]

RECURSIVE NewResults(_, _)
\* a result_list with count[g] passing candidates for the g-th searched id
NewResults(ids, count) ==
    IF ids = <<>> THEN <<>>
    ELSE [n \in 1 .. count[Head(ids)] |-> NewResult(Head(ids), n)]
         \o NewResults(Tail(ids), count)

\* get_images, lines 146-200 with --download: the tables image_features may
\* be when ImageDownloader is constructed (image_count > 0)
DownloadTablesOf(a) ==
    LET self == [min_cloud_only |-> FALSE]
        searched(t) == SearchFeatures(t, a)
        ids(t) == {searched(t).rows[k].id : k \in DOMAIN searched(t).rows}
        results(t) ==
            {NewResults(Ascending(ids(t)), count) : count \in [ids(t) -> 0 .. 2]} \ {<<>>}
    IN {t \in ResumeFiles : ~NewSearch(t, a)}
       \cup UNION {{MergedResult(ResultsToGdf(searched(t), r, self), ExistingSearch(t, a)) :
                      r \in results(t)} :
                   t \in {x \in ResumeFiles : NewSearch(x, a)}}

DownloadTables ==
    DownloadTablesOf([overwrite_search |-> FALSE]) \cup DownloadTablesOf([overwrite_search |-> TRUE])

InitImages ==
    /\ pc = "download_from_gdf"
    /\ image_features \in DownloadTables
    /\ band_descriptions = "None"
    /\ tasks = <<>>
    /\ written = {}
    /\ failed = {}
    /\ npz = <<>>
    /\ args = <<>>
    /\ file = None
    /\ error = "none"
    /\ events = {}
    /\ aoi = None
    /\ existing_search = None
    /\ tile_list = NoTiles
    /\ listing = <<>>
    /\ img_links = <<>>
    /\ raster = <<>>
    /\ validated = {}
    /\ result_list = <<>>
    /\ saved = None
    /\ gate_in = <<>>
    /\ gate_out = <<>>
    /\ xml = <<>>
    /\ xml_reads = <<>>
    /\ save_path = NoPath

ImagesUnchanged ==
    UNCHANGED << args, file, events, aoi, existing_search, tile_list, listing, img_links,
                 raster, validated, result_list, image_features, saved, gate_in, gate_out,
                 xml, xml_reads, save_path, npz, failed >>

\* download_from_gdf, line 128: self.gdf.iterrows()
DownloadFromGdf ==
    /\ pc = "download_from_gdf"
    /\ tasks' = image_features.rows
    /\ pc' = "iterrows"
    /\ UNCHANGED << error, written, band_descriptions >>
    /\ ImagesUnchanged

\* _create_file_name
CreateFileName(s2_link, feature_id) == [fid |-> feature_id, file_name |-> s2_link]

\* download_from_gdf, line 129, for the next row: _read_from_row, which sets
\* band_descriptions when the index label is 0, and _write_window; the
\* image opens or not
ReadWriteRow ==
    /\ pc = "iterrows"
    /\ tasks # <<>>
    /\ LET gdf_row == Head(tasks)
           i == gdf_row.ix
       IN IF gdf_row.image_link = NoLink
          THEN Raise("AttributeError") /\ UNCHANGED << written, band_descriptions, tasks >>
          ELSE \E opens \in BOOLEAN :
                 IF ~opens
                 THEN Raise("RasterioIOError")
                      /\ UNCHANGED << written, band_descriptions, tasks >>
                 ELSE /\ band_descriptions' = IF i = 0 THEN "set" ELSE band_descriptions
                      /\ IF band_descriptions' = "None"
                         THEN Raise("TypeError") /\ UNCHANGED << written, tasks >>
                         ELSE /\ written' = written \cup
                                     {CreateFileName(gdf_row.image_link, gdf_row.id)}
                              /\ tasks' = Tail(tasks)
                              /\ UNCHANGED << pc, error >>
    /\ ImagesUnchanged

\* download_from_gdf returns
ImagesDone ==
    /\ pc = "iterrows"
    /\ tasks = <<>>
    /\ pc' = "done"
    /\ UNCHANGED << error, tasks, written, band_descriptions >>
    /\ ImagesUnchanged

NextImages == DownloadFromGdf \/ ReadWriteRow \/ ImagesDone

SpecImages == InitImages /\ [][NextImages]_vars

-----------------------------------------------------------------------------
(***************************************************************************)
(* Properties                                                              *)
(***************************************************************************)

\* find_image_links has returned to get_images (line 178)
FindReturned == pc = "finish" /\ NewSearch(file, args)

\* the rows of table t for identifier id
RowsOf(t, id) == SelectSeq(t.rows, LAMBDA r : r.id = id)

\* the entries of result_list for identifier id: its passing candidates
PassingOf(id) == SelectSeq(result_list, LAMBDA r : r.id = id)

IsNullRow(r) == r.image_link = NoLink /\ r.image_date = NoDate /\ r.s2cloudles = Nan

\* a run that resumes an earlier search: some rows resolved, some not, and
\* no --overwrite-search
ResumeRun ==
    /\ "image_link" \in file.columns
    /\ ~FullSearch(file, args)
    /\ \E k \in DOMAIN file.rows : IsNa(file.rows[k])

\* C1: the table find_image_links returns has at least one row for every
\* input feature id, and exactly one, all null, row for a feature without
\* passing candidate, also when no candidate passes for any feature.
C1_TotalCoverage ==
    FindReturned =>
        \A k \in DOMAIN aoi.rows :
            LET out == RowsOf(image_features, aoi.rows[k].id)
            IN /\ Len(out) >= 1
               /\ PassingOf(aoi.rows[k].id) = <<>> => Len(out) = 1 /\ IsNullRow(out[1])

\* C2: when the search finds no passing candidate for any feature,
\* get_images ends normally, without exception and without writing a layer.
C2_NoResultsEndsNormally ==
    [][(FindReturned /\ result_list = <<>>)
         => (pc' = "done" /\ error' = "none" /\ saved' = None)]_vars

\* C3: a window that passes the bounds and the no-data gate is admitted by
\* _validate_feature_image and gets a result row for every cloud percentage
\* 0 <= p < s2cloudless_max, and is rejected for every p >= s2cloudless_max.
C3_CloudGateAdmitsBelowThreshold ==
    (pc = "gate_valid" /\ gate_in.px.size > 0
        /\ ImgBoundsFilter(1, gate_in.link, gate_in.px)
        /\ NoDataFilter(gate_in.px, gate_in.self)) =>
        IF ExactBelow(gate_in.px.cloud, gate_in.px.size, gate_in.self.s2cloudless_max)
        THEN Truthy(gate_out.valid) /\ Len(gate_out.rows) = 1
        ELSE gate_out.valid = PyFalse /\ gate_out.rows = <<>>

\* C4: _no_data_filter passes exactly when the percentage of nodata pixels
\* of the window is strictly below nodata_max; a percentage equal to the
\* threshold is rejected.
C4_NoDataGateStrictlyBelow ==
    (pc = "gate_nodata" /\ gate_in.px.size > 0) =>
        (gate_out.nodata <=>
            ExactBelow(gate_in.px.nodata, gate_in.px.size, gate_in.self.nodata_max))

\* C5: with min_cloud_only the result of _results_to_gdf has exactly one row
\* per feature, and the row of a feature with passing candidates carries the
\* minimum score of its passing candidates.
C5_MinCloudOneRowPerFeature ==
    (FindReturned /\ args.min_cloud_only /\ image_features # None) =>
        /\ Len(image_features.rows) = Len(aoi.rows)
        /\ \A k \in DOMAIN aoi.rows :
             LET out == RowsOf(image_features, aoi.rows[k].id)
                 passing == PassingOf(aoi.rows[k].id)
             IN /\ Len(out) = 1
                /\ passing # <<>> =>
                     /\ \E j \in DOMAIN passing : passing[j].s2cloudles = out[1].s2cloudles
                     /\ \A j \in DOMAIN passing : out[1].s2cloudles <= passing[j].s2cloudles

\* C5 witness: a feature with two passing candidates of different scores,
\* resolved with min_cloud_only
C5_Witness ==
    /\ FindReturned /\ args.min_cloud_only /\ image_features # None
    /\ \E i, j \in DOMAIN result_list :
         /\ result_list[i].id = result_list[j].id
         /\ result_list[i].s2cloudles < result_list[j].s2cloudles

\* the rows of a table are in ascending order of (id, image_date)
InOrder(t) == \A i, j \in DOMAIN t.rows : i < j => RowLE(t.rows[i], t.rows[j])

\* C6: with the keep-all policy every passing (feature, candidate) pair has
\* exactly one output row, and the rows are in ascending (id, date) order.
C6_KeepAllOneRowPerPair ==
    ((FindReturned \/ pc = "done") /\ ~args.min_cloud_only /\ image_features # None) =>
        /\ \A n \in DOMAIN result_list :
             Len(SelectSeq(image_features.rows,
                           LAMBDA r : r.id = result_list[n].id
                                      /\ r.image_link = result_list[n].image_link)) = 1
        /\ InOrder(image_features)

\* the configuration errors: date range, identifier column, empty input,
\* cloud threshold
ConfigInvalid ==
    \/ args.dates[1] # 0 /\ args.dates[2] # 0 /\ args.dates[2] <= args.dates[1]
    \/ "id" \notin file.columns
    \/ file.rows = <<>>
    \/ args.feature_cloud_percent < 0 \/ args.feature_cloud_percent > 100
    \/ args.tile_cloud_percent < 0 \/ args.tile_cloud_percent > 100

\* the number of rows of t equal to r
Occurrences(t, r) == Len(SelectSeq(t.rows, LAMBDA x : x = r))

\* C7: a resume run ends with a result that holds each previously resolved
\* row exactly once and unchanged and has at least N + M rows, whatever the
\* search of the M unresolved features finds, nothing included.
C7_ResumeKeepsResolvedRows ==
    (ResumeRun /\ ~ConfigInvalid /\ args.dates = <<1, 2>> /\ pc \in {"done", "raised"}) =>
        /\ pc = "done"
        /\ \A k \in DOMAIN file.rows :
             NotNa(file.rows[k]) => Occurrences(image_features, file.rows[k]) = 1
        /\ Len(image_features.rows) >= Len(file.rows)

\* C8: in a resume run the gate chain is evaluated only for rows whose
\* image_link is null, never for a row that already has an image_link.
C8_ResolvedRowsNotValidated ==
    ResumeRun =>
        \A p \in validated :
            \A k \in DOMAIN file.rows : file.rows[k].ix = p[1] => IsNa(file.rows[k])

\* C8 witness: a resume run that validated a candidate
C8_Witness ==
    /\ ResumeRun
    /\ pc = "results"
    /\ validated # {}
    /\ \E k \in DOMAIN file.rows : NotNa(file.rows[k])

\* the pages all_img_list read
PagesRead ==
    [k \in DOMAIN listing |->
        listing[k] \cup {HrefMeta(ExistingFolders(args.dates[1], args.dates[2])[k])}]

\* C9: the search returns the same rows in the same order whatever the
\* iteration order of the link set of each listing.
C9_IterationOrderIndependent ==
    FindReturned =>
        \A links \in AllImgLists(PagesRead, tile_list) :
            FindImageLinks(aoi, tile_list, links, raster, FindS2Config(args)) = image_features

\* C10: with an invalid configuration the run raises an error before any
\* tile-layer fetch, listing request or raster open, in a fresh search and
\* in a resume run.
C10_ConfigErrorsBeforeSearch ==
    ConfigInvalid => (events = {} /\ pc # "done" /\ (pc = "raised" => error = "ValueError"))

\* the metadata of the candidates has been requested by the whole-tile check
XmlChecked == FindS2Config(args).check_img_cloud /\ "xml" \in events

\* C11: with the whole-tile cloud check enabled, a candidate whose metadata
\* cannot be fetched (timeout, status other than 200) or has no
\* ARCSI_CLOUD_COVER field is excluded and the search goes on: the run is not
\* ended by the failure, and the candidates left are those whose metadata
\* was read.
C11_XmlFailureExcludesCandidate ==
    XmlChecked =>
        /\ pc # "raised"
        /\ \A k \in DOMAIN img_links :
              LET x == xml[FileOf(img_links[k])]
              IN x.status = "200" /\ x.field

\* _filter_image_extent has run: it returned, or ended with its IndexError
ExtentRun == pc \in {"s1_save", "done"} \/ (pc = "raised" /\ error = "IndexError")

\* the images left by the two filters of _filter_image_extent
ExtentChecked ==
    FilterNodata(SpatialCheckImages(img_links, raster), raster, FindS1Config(args))

\* the images of list l taken in direction dir
OfDirection(l, dir) == SelectSeq(l, LAMBDA x : x.dir = dir)

\* C12: with filter_orbits enabled, when the filters leave images but none
\* of one pass direction, _filter_image_extent raises no error and returns
\* no image of that direction and the images of the chosen orbit of the
\* other direction.
C12_NoOrbitOfDirection ==
    (ExtentRun /\ FindS1Config(args).filter_orbits /\ ExtentChecked # <<>>) =>
        \A dir \in {"asc", "desc"} :
            OfDirection(ExtentChecked, dir) = <<>> =>
                /\ pc # "raised"
                /\ OfDirection(result_list, dir) = <<>>
                /\ \A other \in {"asc", "desc"} \ {dir} :
                     OfDirection(ExtentChecked, other) # <<>> =>
                        /\ OfDirection(result_list, other) # <<>>
                        /\ \A i, j \in DOMAIN result_list :
                             result_list[i].orbit = result_list[j].orbit

\* the orbits of direction dir with an image, left by the filters, whose
\* footprint contains the AOI bounds
ContainingOrbits(dir) ==
    {ExtentChecked[k].orbit : k \in {i \in DOMAIN ExtentChecked :
                                       /\ ExtentChecked[i].dir = dir
                                       /\ raster[ExtentChecked[i]].contains}}

\* C13: with filter_orbits enabled, the orbit chosen for a pass direction is
\* the orbit with the most images among the orbits of that direction that
\* have an image whose footprint contains the AOI bounds.
C13_ChosenOrbitContainsAoi ==
    (pc \in {"s1_save", "done"} /\ FindS1Config(args).filter_orbits) =>
        \A dir \in {"asc", "desc"} :
            ContainingOrbits(dir) # {} =>
                \E o \in ContainingOrbits(dir) :
                    /\ \A p \in ContainingOrbits(dir) :
                         OrbitCount(ExtentChecked, dir, p) <= OrbitCount(ExtentChecked, dir, o)
                    /\ {x.orbit : x \in Range(OfDirection(result_list, dir))} = {o}

\* the pixels of the connected nodata region of pixel c
RegionOf(c, nodata) == Grow({c}, nodata)

SaveCalled ==
    \/ pc = "done" /\ save_path # NoPath
    \/ pc = "raised" /\ error \in {"UnboundLocalError", "IndexError"}

\* C15: _save_features_path returns a path in the directory of the features
\* path, with its extension, whose name ends with the start and end dates of
\* the search, for a name without a date range and for a name that ends with
\* one.
C15_SavePathCarriesSearchDates ==
    SaveCalled =>
        /\ pc = "done"
        /\ save_path.parent = args.features_path.parent
        /\ save_path.extn = args.features_path.extn
        /\ Len(save_path.stem) >= 2
        /\ SubSeq(save_path.stem, Len(save_path.stem) - 1, Len(save_path.stem))
             = <<DateTok(args.dates[1]), DateTok(args.dates[2])>>

RECURSIVE Digits(_)
\* the decimal digits of n >= 0
Digits(n) == IF n < 10 THEN <<n>> ELSE Digits(n \div 10) \o <<n % 10>>

\* the text of a Sentinel-1 link as numbers that compare like its
\* characters: the date folder, then the satellite, date, orbit and
\* direction of the file name; 10 stands for the underscore that ends the
\* orbit, which is above every digit
LinkText(l) ==
    Digits(l.date) \o <<IF l.sat = "S1A" THEN 1 ELSE 2>> \o Digits(l.date)
        \o Digits(l.orbit) \o <<10, IF l.dir = "asc" THEN 1 ELSE 2>>

RECURSIVE LexLE(_, _)
\* a <= b for the texts a and b
LexLE(a, b) ==
    IF a = <<>> THEN TRUE
    ELSE IF b = <<>> THEN FALSE
    ELSE IF Head(a) # Head(b) THEN Head(a) < Head(b)
    ELSE LexLE(Tail(a), Tail(b))

\* C16: the list of image links that a Sentinel-1 search run writes is in
\* ascending lexicographic order, whatever the order in which the links were
\* found in the listings.
C16_OutputListAscending ==
    (pc = "done" /\ "listing" \in events) =>
        \A i, j \in DOMAIN saved :
            i < j => LexLE(LinkText(saved[i]), LinkText(saved[j]))

\* the feature ids of the mapping, restricted to feature_ids when given (a
\* list with no id selects every feature, as None does)
RequestedIds ==
    IF args.feature_ids.ids # {} THEN DownloadIds \cap args.feature_ids.ids ELSE DownloadIds

\* the file of id was written in this run, with the stems of the links of
\* id that were read and are not all nodata as keys
WrittenWithKeys(id) ==
    /\ id \in written
    /\ npz[id].exists
    /\ npz[id].keys = {StemOf(args.image_links[id][k]) :
                         k \in {i \in DOMAIN args.image_links[id] : raster[id][i] = "data"}}

ResultSet == SelectSeq(image_features.rows, NotNa)

\* a result set with exactly one row per feature
OneRowPerFeature(results) ==
    \A i, j \in DOMAIN results : results[i].id = results[j].id => i = j

\* C18: applying the keep-minimum-cloud selection to a result set that
\* already has one row per feature returns the same set of rows.
C18_MinCloudIdempotent ==
    (image_features # None /\ "image_link" \in image_features.columns
        /\ OneRowPerFeature(ResultSet)) =>
        Range(IdxMinRows(ResultSet)) = Range(ResultSet)

\* a result of a search with min_cloud_only, where the selection dropped a
\* row, with rows of two features
C18_Witness ==
    /\ FindReturned /\ args.min_cloud_only /\ image_features # None
    /\ Len(IdxMinRows(result_list)) < Len(result_list)
    /\ OneRowPerFeature(ResultSet)
    /\ Len(ResultSet) = 2

\* the anchors of the listing pages that were read
ListedHrefs == UNION {listing[k] : k \in DOMAIN listing}

\* an anchor of a product file whose orbit token is no integer
Unparseable(h) == h.suffix = "SpkRL.tif" /\ h.query = "?download=1" /\ h.orbit = NotInt

\* an anchor that _extract_links takes as a candidate
Candidate(h) ==
    /\ h.suffix = "SpkRL.tif" /\ h.query = "?download=1" /\ h.orbit # NotInt
    /\ h.orbit \in FindS1Config(args).orbit_numbers /\ h.region = "GB_OSGB"

\* C19: a listing entry whose file name cannot be parsed is left out of the
\* candidates and does not abort the extraction: the search goes on with the
\* candidates of the remaining entries.
C19_ParseFailureNonFatal ==
    ("listing" \in events
        /\ \E h \in ListedHrefs : Unparseable(h)) =>
        /\ error # "ValueError"
        /\ \A h \in ListedHrefs :
             /\ Unparseable(h) => [h EXCEPT !.query = ""] \notin Range(img_links)
             /\ Candidate(h) => [h EXCEPT !.query = ""] \in Range(img_links)

\* C20: _validate_feature_image evaluates the gates in the order bounds,
\* no-data, cloud, and evaluates no gate after one that failed: the no-data
\* gate only when the bounds gate passed, the cloud gate only when the
\* no-data gate passed as well.
C20_GatesInOrderShortCircuit ==
    pc = "gate_valid" =>
        LET gates == gate_out.gates
            bounds == ImgBoundsFilter(1, gate_in.link, gate_in.px)
            nodata == NoDataFilter(gate_in.px, gate_in.self)
        IN /\ gates = SubSeq(<<"bounds", "nodata", "cloud">>, 1, Len(gates))
           /\ Len(gates) >= 1
           /\ "nodata" \in Range(gates) <=> bounds
           /\ "cloud" \in Range(gates) <=> (bounds /\ nodata)
           /\ Truthy(gate_out.valid) => Len(gates) = 3

\* an image that opens with a window that would pass the no-data gate, of
\* a tile that does not meet the feature: only the bounds gate is evaluated
C20_Witness ==
    /\ pc = "gate_valid"
    /\ gate_in.px.open /\ NoDataFilter(gate_in.px, gate_in.self)
    /\ gate_in.link = GateFarLink
    /\ gate_out.gates = <<"bounds">>

\* _find_images_per_feature has run over the rasters
PerFeatureDone == pc = "results"

\* the candidates whose raster could be opened
Openable == SelectSeq(img_links, LAMBDA l : raster[FileOf(l)].open)

TilePasses(x) ==
    x.status = "200" /\ x.field /\ x.cover <= FindS2Config(args).tile_cloud_max

\* C22: with the whole-tile cloud check enabled the metadata of a candidate
\* is requested at most once and before any per-feature gate is evaluated,
\* and only candidates that pass it are given to the per-feature gates;
\* with the check disabled no metadata is requested.
C22_TileCheckOncePerCandidate ==
    /\ \A i, j \in DOMAIN xml_reads : xml_reads[i] = xml_reads[j] => i = j
    /\ pc \in {"overall_cloud", "per_feature"} => validated = {} /\ "raster" \notin events
    /\ FindS2Config(args).check_img_cloud =>
          \A v \in validated : TilePasses(xml[FileOf(v[2])])
    /\ ~FindS2Config(args).check_img_cloud => xml_reads = <<>> /\ "xml" \notin events

\* C23: the list of candidates gathered over the date range holds each link
\* at most once, also when several listing pages link the same file.
C23_CandidatesDistinct ==
    "listing" \in events =>
        \A i, j \in DOMAIN img_links : img_links[i] = img_links[j] => i = j

\* the files of the product links of the listing pages read
ListedProducts ==
    {FileOf(h) : h \in {x \in UNION {listing[k] : k \in DOMAIN listing} :
                          x.suffix = "stdsref.tif" /\ x.query = "?download=1"}}

\* the tile reference layer could not be read
NoTileLayer == "tile_layer" \in events /\ ~tile_list.fetched

\* C24: when the tile reference layer cannot be read the search goes on
\* without tile filter: every listed product file is a candidate, and every
\* candidate is given to the gates for every feature.
C24_NoTileLayerNoTileFilter ==
    NoTileLayer =>
        /\ pc = "all_img_list" => error = "none"
        /\ (pc \in {"overall_cloud", "per_feature"} /\ xml_reads = <<>>) =>
              {FileOf(l) : l \in Range(img_links)} = ListedProducts
        /\ pc = "results" =>
              validated = {<<aoi.rows[k].ix, l>> : k \in DOMAIN aoi.rows, l \in Range(img_links)}

\* without the reference layer, an image of a tile that does not meet
\* feature 2 was given to the gates for that feature
C24_Witness ==
    /\ NoTileLayer /\ pc = "results"
    /\ \E k \in DOMAIN aoi.rows, l \in Range(img_links) :
         /\ l.tile \notin FeatureTiles(aoi.rows[k].geometry)
         /\ <<aoi.rows[k].ix, l>> \in validated

\* _filter_image_extent returned its list, with filter_orbits enabled
OrbitsFiltered == pc \in {"s1_save", "done"} /\ FindS1Config(args).filter_orbits

\* the orbit numbers of the images of list l taken in direction dir
OrbitsOf(l, dir) == {l[k].orbit : k \in {i \in DOMAIN l : l[i].dir = dir}}

C27_ScoreIsCloudPercentage ==
    (pc = "gate_valid" /\ gate_out.rows # <<>>) =>
        gate_out.rows[1].s2cloudles * gate_in.px.size = gate_in.px.cloud * 100

\* C28: download_from_gdf sets band_descriptions before the first
\* _write_window call, whatever the index labels and the order of the rows
\* of the table: no write meets band descriptions that are not set.
C28_BandDescriptionsBeforeFirstWrite ==
    /\ error # "TypeError"
    /\ written # {} => band_descriptions = "set"

\* the rows of the table handed to the download that have an image link
LinkedRows == SelectSeq(image_features.rows, NotNa)

\* C29: for a table with rows that have an image link and null rows, the
\* download skips the null rows without raising and writes one file for
\* every row with a link.
C29_NullRowsSkipped ==
    (\E k \in DOMAIN image_features.rows : IsNa(image_features.rows[k])) =>
        /\ error # "AttributeError"
        /\ pc = "done" =>
              written = {CreateFileName(LinkedRows[k].image_link, LinkedRows[k].id) :
                           k \in DOMAIN LinkedRows}

\* the tile allow-lists of the features
AllowLists ==
    {FilterSentinel2Tiles(rows, TRUE) :
        rows \in {<<[geometry |-> g]>> : g \in Features}}

\* C30: _extract_links returns the same identifier for a listed file with
\* and without tile allow-list, the link without its "?download=1" query,
\* so that the candidates got without allow-list include those got with
\* any allow-list from the same page.
C30_SameIdentifierWithoutAllowList ==
    "listing" \in events =>
        \A k \in DOMAIN listing :
            /\ \A l \in ExtractLinks(listing[k], NoTiles) : l.query = ""
            /\ \A tl \in AllowLists :
                 ExtractLinks(listing[k], tl) \subseteq ExtractLinks(listing[k], NoTiles)

=============================================================================
